---------------------------- MODULE Spec2Model ----------------------------
(***************************************************************************)
(* The OAuth token cache of auth.py (token_cache, token_lock,              *)
(* get_ebay_access_token, clear_token_cache, get_token_info) and the       *)
(* retrying search of api_fetcher.py (fetch_ebay_listings), run by         *)
(* concurrent threads that make a bounded number of calls between them,    *)
(* and the search loop of the command-line script scraper.py.              *)
(***************************************************************************)
EXTENDS Integers, Sequences, FiniteSets, TLC

(* ----------------------------- bounds --------------------------------- *)
\* calls the threads make between them
MaxCalls == 3
\* calls of the token store made next to a search
MaxBeside == 1
\* largest max_retries a caller of fetch_ebay_listings passes
MaxRetries == 3
\* times the clock moves, and by how many seconds
MaxTicks == 1
TickStep == 3600
\* identity requests after which the search of scraper.py is answered no 401
MaxPosts == 2

Threads == {1, 2}
NoThread == 0

(* ------------------------- program constants --------------------------- *)
\* timedelta(seconds=int(expires_in) - 120): the two-minute buffer
Buffer == 120
\* datetime.min: earlier than every reading of the clock
DatetimeMin == -1000
\* Python's None and the empty string, the two falsy values of access_token
None == -1
EmptyStr == 0
\* the default of the max_retries parameter
DefaultMaxRetries == 3

\* lifetimes (expires_in) an identity response may declare
ShortLife == 90
LongLife == 3600
ExpiresInValues == {ShortLife, LongLife}

(* --------------------------- program state ----------------------------- *)
VARIABLES
  clock,          \* datetime.now(timezone.utc)
  env,            \* os.environ: is EBAY_CLIENT_ID / EBAY_CLIENT_SECRET set
  token_cache,    \* [access_token, expires_at]
  token_lock,     \* the thread holding token_lock, or NoThread
  pc,             \* each thread's position
  op,             \* each thread's top-level call
  current_time,   \* get_ebay_access_token's local current_time
  attempt,        \* fetch_ebay_listings' loop variable
  max_retries,    \* fetch_ebay_listings' parameter
  access_token,   \* fetch_ebay_listings' local access_token
  response,       \* get_ebay_access_token's local response: its status and shape
  ret,            \* what the thread's last finished call returned or raised
  EBAY_APP_ID,    \* scraper.py's global EBAY_APP_ID
  status_code,    \* scraper.py: how the search request of the loop came back
  \* history (not read by the program)
  posts,          \* identity-endpoint requests issued so far
  getPosts,       \* identity-endpoint requests of the thread's current acquisition
  postsAtStart,   \* value of posts when the thread's current acquisition began
  calls,          \* top-level calls begun so far
  outcomes,       \* outcomes of the search requests of the current fetch
  sinceClear,     \* "valid" or "expired" (what the cache was) when the thread's
                  \* previous call was clear_token_cache and no other thread has
                  \* written the cache since; "no" otherwise
  waited          \* "waiting" while the thread's acquisition stands before
                  \* token_lock held by a refresh, then how that refresh ended

vars == <<clock, env, token_cache, token_lock, pc, op, current_time,
          attempt, max_retries, access_token, response, ret, posts, getPosts,
          postsAtStart, calls, outcomes, sinceClear, waited,
          EBAY_APP_ID, status_code>>

scraperVars == <<EBAY_APP_ID, status_code>>

NoResponse == [status |-> -1, shape |-> "none"]
NoRet == [kind |-> "none", val |-> None, cause |-> "none"]

Init ==
  /\ clock = 0
  /\ env \in [client_id : BOOLEAN, client_secret : BOOLEAN]
  /\ token_cache = [access_token |-> None, expires_at |-> DatetimeMin]
  /\ token_lock = NoThread
  /\ pc = [t \in Threads |-> "idle"]
  /\ op = [t \in Threads |-> "none"]
  /\ current_time = [t \in Threads |-> 0]
  /\ attempt = [t \in Threads |-> 0]
  /\ max_retries = [t \in Threads |-> 0]
  /\ access_token = [t \in Threads |-> None]
  /\ response = [t \in Threads |-> NoResponse]
  /\ ret = [t \in Threads |-> NoRet]
  /\ posts = 0
  /\ getPosts = [t \in Threads |-> 0]
  /\ postsAtStart = [t \in Threads |-> 0]
  /\ calls = 0
  /\ outcomes = [t \in Threads |-> <<>>]
  /\ sinceClear = [t \in Threads |-> "no"]
  /\ waited = [t \in Threads |-> "no"]
  /\ EBAY_APP_ID = None
  /\ status_code = "none"

(* ------------------------------ helpers -------------------------------- *)
\* Python truthiness of token_cache["access_token"]: None and "" are falsy
Truthy(tok) == tok # None /\ tok # EmptyStr

\* faulty variant of CacheValid: the comparison with expires_at turned round
CacheValidInverted(cache, ct) == Truthy(cache.access_token) /\ ct > cache.expires_at

\* auth.py 27 and 51: the cached token is served when it is truthy and the
\* caller's reading of the clock is before expires_at
CacheValid(cache, ct) == Truthy(cache.access_token) /\ ct < cache.expires_at

\* faulty variant of CredentialsMissing: only the client id is tested
CredentialsIdMissing(e) == ~e.client_id

\* faulty variant of CredentialsMissing: the test turned round
CredentialsPresent(e) == e.client_id /\ e.client_secret

\* auth.py 35: if not client_id or not client_secret
CredentialsMissing(e) == ~e.client_id \/ ~e.client_secret

\* auth.py 83-85: current_time + timedelta(seconds=int(expires_in) - 120)
NewExpiresAt(ct, expires_in) == ct + (expires_in - Buffer)

\* the token the n-th identity request hands out
IssuedToken(n) == n

\* bodies the identity endpoint may answer with when the status is 200
TokenBodies(n) ==
  [shape : {"ok"}, access_token : {IssuedToken(n)}, expires_in : ExpiresInValues]
    \cup {[shape |-> "ok", access_token |-> EmptyStr, expires_in |-> LongLife]}
    \cup [shape : {"not_json", "no_access_token", "no_expires_in", "bad_expires_in"},
          access_token : {IssuedToken(n)}, expires_in : {0}]

\* every way the round trip of auth.py 55-66 can end
Responses(n) ==
  [status : {200}, body : TokenBodies(n)]
    \cup {[status |-> 0,   body |-> [shape |-> "timeout", access_token |-> None, expires_in |-> 0]],
          [status |-> 401, body |-> [shape |-> "error",   access_token |-> None, expires_in |-> 0]]}

\* faulty variant of HasFields: only access_token is looked for
HasFieldsTokenOnly(body) == body.shape \in {"ok", "bad_expires_in", "no_expires_in"}

\* auth.py 78: all(k in token_data for k in ("access_token", "expires_in"))
HasFields(body) == body.shape \in {"ok", "bad_expires_in"}

Raise(kind, cause) == [kind |-> kind, val |-> None, cause |-> cause]
Return(kind, v) == [kind |-> kind, val |-> v, cause |-> "none"]

(* ------------------------------ token_lock ----------------------------- *)
\* faulty variant of Acquirable: the block is entered without waiting
AcquirableAlways(lock) == TRUE

\* auth.py 26, 49, 101, 110: with token_lock blocks until no thread holds it
Acquirable(lock) == lock = NoThread

\* faulty variant of LockOnExit: the lock taken and released by hand, the
\* release skipped when the block is left by an exception
LockKeptOnError(t, r) == IF r.kind = "EbayAuthError" THEN t ELSE NoThread

\* auth.py 49, 101: the holder of token_lock after thread t left its with
\* block with the result r: the block releases it, on return and on raise
LockOnExit(t, r) == NoThread

(* ----------------------- get_ebay_access_token ------------------------- *)
\* faulty variant of GetEnds: an acquisition that failed is tried once more
\* inside get_ebay_access_token before the error is raised
GetEndsTriesAgain(t, r) ==
  IF r.kind = "EbayAuthError" /\ getPosts[t] < 2
    THEN /\ pc' = [pc EXCEPT ![t] = "g_lock2"]
         /\ UNCHANGED <<ret, access_token, current_time>>
    ELSE /\ pc' = [pc EXCEPT ![t] = IF op[t] = "fetch" /\ r.kind = "token"
                                      THEN "f_search" ELSE "ret"]
         /\ ret' = IF op[t] = "fetch" /\ r.kind = "token"
                     THEN ret ELSE [ret EXCEPT ![t] = r]
         /\ access_token' = IF op[t] = "fetch" /\ r.kind = "token"
                              THEN [access_token EXCEPT ![t] = r.val]
                              ELSE access_token
         /\ current_time' = [current_time EXCEPT ![t] = 0]

\* the acquisition ends: back in fetch_ebay_listings, or at the top-level caller.
\* An EbayAuthError is caught by neither except clause of fetch_ebay_listings
\* (api_fetcher.py 71, 77), so it leaves fetch_ebay_listings as it is.
\* In scraper.py the token goes to EBAY_APP_ID (27, 42), and an EbayAuthError
\* ends the script.
GetEnds(t, r) ==
  /\ IF op[t] \in {"fetch", "scrape"} /\ r.kind = "token"
       THEN /\ pc' = [pc EXCEPT ![t] = IF op[t] = "fetch" THEN "f_search"
                                                          ELSE "s_assign"]
            /\ access_token' = [access_token EXCEPT ![t] = r.val]
            /\ UNCHANGED ret
       ELSE /\ pc' = [pc EXCEPT ![t] = "ret"]
            /\ ret' = [ret EXCEPT ![t] = r]
            /\ UNCHANGED access_token
  /\ current_time' = [current_time EXCEPT ![t] = 0]

\* auth.py 23: current_time = datetime.now(timezone.utc), on entry
GetEnter(t) ==
  /\ current_time' = [current_time EXCEPT ![t] = clock]
  /\ getPosts' = [getPosts EXCEPT ![t] = 0]
  /\ postsAtStart' = [postsAtStart EXCEPT ![t] = posts]
  /\ response' = [response EXCEPT ![t] = NoResponse]
  /\ waited' = [waited EXCEPT ![t] = "no"]

\* auth.py 26-36: the first block under token_lock serves the cached token;
\* otherwise the credentials are read from the environment
GetBlock1(t) ==
  /\ pc[t] = "g_block1"
  /\ Acquirable(token_lock)
  /\ IF CacheValid(token_cache, current_time[t])
       THEN GetEnds(t, Return("token", token_cache.access_token))
       ELSE IF CredentialsMissing(env)
         THEN GetEnds(t, Raise("EbayAuthError", "empty_credentials"))
         ELSE /\ pc' = [pc EXCEPT ![t] = "g_lock2"]
              /\ UNCHANGED <<ret, access_token, current_time>>
  /\ UNCHANGED <<clock, env, token_cache, token_lock, op, attempt, max_retries,
                 response, posts, getPosts, postsAtStart, calls, outcomes,
                 sinceClear, waited>>
  /\ UNCHANGED scraperVars

\* the acquisitions that stand before token_lock when thread t takes it
Waiters(t) == {u \in Threads \ {t} : pc[u] \in {"g_block1", "g_lock2"}}

\* auth.py 49-66: the second block takes token_lock and tests the cache again;
\* when the test fails the request is sent, token_lock held
GetLock2(t) ==
  /\ pc[t] = "g_lock2"
  /\ Acquirable(token_lock)
  /\ IF CacheValid(token_cache, current_time[t])
       THEN /\ GetEnds(t, Return("token", token_cache.access_token))
            /\ UNCHANGED <<token_lock, posts, getPosts, waited>>
       ELSE /\ token_lock' = t
            /\ pc' = [pc EXCEPT ![t] = "g_post"]
            /\ posts' = posts + 1
            /\ getPosts' = [getPosts EXCEPT ![t] = @ + 1]
            /\ waited' = [u \in Threads |->
                            IF u \in Waiters(t) THEN "waiting" ELSE waited[u]]
            /\ UNCHANGED <<ret, access_token, current_time>>
  /\ UNCHANGED <<clock, env, token_cache, op, attempt, max_retries, response,
                 postsAtStart, calls, outcomes, sinceClear>>
  /\ UNCHANGED scraperVars

\* auth.py 76-85: the cache after the response r: 82 writes access_token,
\* 83-85 expires_at (int() of a value that is no integer raises between the two)
CacheAfter(cache, ct, r) ==
  IF r.status = 200 /\ HasFields(r.body)
    THEN IF r.body.shape = "ok"
           THEN [access_token |-> r.body.access_token,
                 expires_at |-> NewExpiresAt(ct, r.body.expires_in)]
           ELSE [cache EXCEPT !.access_token = r.body.access_token]
    ELSE cache

\* auth.py 69-95: what the call returns or raises for the response r
\* (response.json() of 76 raises for a body that is no JSON, and 90-95 turn
\* whatever it raises into an EbayAuthError)
ResultAfter(r) ==
  IF r.status = 0 THEN Raise("EbayAuthError", "network")
  ELSE IF r.status # 200 THEN Raise("EbayAuthError", "status")
  ELSE IF r.body.shape = "not_json" THEN Raise("EbayAuthError", "not_json")
  ELSE IF ~HasFields(r.body) THEN Raise("EbayAuthError", "invalid_format")
  ELSE IF r.body.shape # "ok" THEN Raise("EbayAuthError", "unexpected")
  ELSE Return("token", r.body.access_token)

\* auth.py 55-95: the response arrives; token_lock is released on the way out
GetPost(t) ==
  /\ pc[t] = "g_post"
  /\ \E r \in Responses(posts) :
       /\ token_cache' = CacheAfter(token_cache, current_time[t], r)
       /\ response' = [response EXCEPT ![t] = [status |-> r.status, shape |-> r.body.shape]]
       /\ GetEnds(t, ResultAfter(r))
       /\ sinceClear' = IF token_cache' # token_cache
                          THEN [u \in Threads |-> IF u = t THEN sinceClear[u] ELSE "no"]
                          ELSE sinceClear
       /\ waited' = [u \in Threads |->
                       IF waited[u] = "waiting"
                         THEN (IF ResultAfter(r).kind = "token" THEN "refreshed" ELSE "failed")
                         ELSE waited[u]]
       /\ token_lock' = LockOnExit(t, ResultAfter(r))
  /\ UNCHANGED <<clock, env, op, attempt, max_retries, posts, getPosts,
                 postsAtStart, calls, outcomes>>
  /\ UNCHANGED scraperVars

(* -------------------------- clear_token_cache -------------------------- *)
\* auth.py 101-102: with token_lock: token_cache["access_token"] = None
ClearToken(t) ==
  /\ pc[t] = "c_lock"
  /\ Acquirable(token_lock)
  /\ token_lock' = t
  /\ token_cache' = [token_cache EXCEPT !.access_token = None]
  /\ sinceClear' = [sinceClear EXCEPT ![t] =
                      IF CacheValid(token_cache, clock) THEN "valid" ELSE "expired"]
  /\ pc' = [pc EXCEPT ![t] = "c_expiry"]
  /\ UNCHANGED <<clock, env, op, current_time, attempt, max_retries,
                 access_token, response, ret, posts, getPosts, postsAtStart,
                 calls, outcomes, waited>>
  /\ UNCHANGED scraperVars

\* auth.py 103-104: token_cache["expires_at"] = datetime.min; the block ends
ClearExpiry(t) ==
  /\ pc[t] = "c_expiry"
  /\ token_cache' = [token_cache EXCEPT !.expires_at = DatetimeMin]
  /\ token_lock' = LockOnExit(t, Return("cleared", None))
  /\ pc' = [pc EXCEPT ![t] = "ret"]
  /\ ret' = [ret EXCEPT ![t] = Return("cleared", None)]
  /\ UNCHANGED <<clock, env, op, current_time, attempt, max_retries,
                 access_token, response, posts, getPosts, postsAtStart, calls,
                 outcomes, sinceClear, waited>>
  /\ UNCHANGED scraperVars

(* ---------------------------- get_token_info --------------------------- *)
\* auth.py 111-119: has_token, is_valid and expires_at
TokenInfo(cache, now) ==
  [kind |-> "info",
   val |-> cache.expires_at,
   cause |-> IF CacheValid(cache, now) THEN "valid"
             ELSE IF Truthy(cache.access_token) THEN "expired" ELSE "no_token"]

\* auth.py 110-119: the whole block under token_lock
InfoRead(t) ==
  /\ pc[t] = "i_read"
  /\ Acquirable(token_lock)
  /\ ret' = [ret EXCEPT ![t] = TokenInfo(token_cache, clock)]
  /\ pc' = [pc EXCEPT ![t] = "ret"]
  /\ UNCHANGED <<clock, env, token_cache, token_lock, op, current_time, attempt,
                 max_retries, access_token, response, posts, getPosts,
                 postsAtStart, calls, outcomes, sinceClear, waited>>
  /\ UNCHANGED scraperVars

(* -------------------------- fetch_ebay_listings ------------------------ *)
\* faulty variant of InRange: range(max_retries + 1)
InRangeInclusive(att, mr) == att <= mr

\* api_fetcher.py 43: for attempt in range(max_retries)
InRange(att, mr) == att < mr

\* api_fetcher.py 43: len(range(max_retries)), the iterations the loop has
RangeLen(mr) == IF mr > 0 THEN mr ELSE 0

\* faulty variant of AttemptsRemain: gives up one attempt early
AttemptsRemainEarly(att, mr) == att < mr - 2

\* api_fetcher.py 72 and 79: attempt < max_retries - 1
AttemptsRemain(att, mr) == att < mr - 1

\* outcomes of the search request of api_fetcher.py 63-64: a 200, a 401,
\* another error status, or a network-level error
SearchOutcomes == {"200", "401", "500", "neterr"}

\* faulty variant of FetchFor: the token is asked for on the first attempt
\* only, later attempts send what the thread still holds
FetchForAcquiresOnce(t) ==
  /\ pc[t] = "f_for"
  /\ IF InRange(attempt[t], max_retries[t])
       THEN IF attempt[t] = 0
              THEN /\ pc' = [pc EXCEPT ![t] = "g_block1"]
                   /\ GetEnter(t)
                   /\ UNCHANGED ret
              ELSE /\ pc' = [pc EXCEPT ![t] = "f_search"]
                   /\ UNCHANGED <<ret, current_time, getPosts, postsAtStart,
                                  response, waited>>
       ELSE /\ pc' = [pc EXCEPT ![t] = "ret"]
            /\ ret' = [ret EXCEPT ![t] = Raise("ConnectionError", "max_retries_exceeded")]
            /\ UNCHANGED <<current_time, getPosts, postsAtStart, response, waited>>
  /\ UNCHANGED <<clock, env, token_cache, token_lock, op, attempt, max_retries,
                 access_token, posts, calls, outcomes, sinceClear>>
  /\ UNCHANGED scraperVars

\* api_fetcher.py 43-45 and 83: the next iteration calls
\* get_ebay_access_token; an exhausted range falls through to the final raise
FetchFor(t) ==
  /\ pc[t] = "f_for"
  /\ IF InRange(attempt[t], max_retries[t])
       THEN /\ pc' = [pc EXCEPT ![t] = "g_block1"]
            /\ GetEnter(t)
            /\ UNCHANGED ret
       ELSE /\ pc' = [pc EXCEPT ![t] = "ret"]
            /\ ret' = [ret EXCEPT ![t] = Raise("ConnectionError", "max_retries_exceeded")]
            /\ UNCHANGED <<current_time, getPosts, postsAtStart, response, waited>>
  /\ UNCHANGED <<clock, env, token_cache, token_lock, op, attempt, max_retries,
                 access_token, posts, calls, outcomes, sinceClear>>
  /\ UNCHANGED scraperVars

\* faulty variant of Handle: every error status is retried, not only 401
HandleRetriesEveryStatus(o, att, mr, tok) ==
  IF o = "200" THEN Return("result", tok)
  ELSE IF o = "neterr"
    THEN IF AttemptsRemain(att, mr) THEN Return("continue", None)
         ELSE Raise("RequestException", "none")
  ELSE IF AttemptsRemain(att, mr) THEN Return("continue", None)
  ELSE Raise("HTTPError", o)

\* faulty variant of Handle: a network-level error is raised at once
HandleGivesUpOnNetworkError(o, att, mr, tok) ==
  IF o = "200" THEN Return("result", tok)
  ELSE IF o = "neterr" THEN Raise("RequestException", "none")
  ELSE IF o = "401" /\ AttemptsRemain(att, mr) THEN Return("continue", None)
  ELSE Raise("HTTPError", o)

\* faulty variant of Handle: the return of line 69 left out, so the loop
\* goes on after a success while attempts remain
HandleGoesOnAfterSuccess(o, att, mr, tok) ==
  IF o = "200"
    THEN IF AttemptsRemain(att, mr) THEN Return("continue", None)
         ELSE Return("result", tok)
  ELSE IF o = "neterr"
    THEN IF AttemptsRemain(att, mr) THEN Return("continue", None)
         ELSE Raise("RequestException", "none")
  ELSE IF o = "401" /\ AttemptsRemain(att, mr) THEN Return("continue", None)
  ELSE Raise("HTTPError", o)

\* api_fetcher.py 63-82: what becomes of attempt att whose search request
\* ended with outcome o: the result returned, "continue", or the exception
\* of the request re-raised as it is
Handle(o, att, mr, tok) ==
  IF o = "200" THEN Return("result", tok)
  ELSE IF o = "neterr"
    THEN IF AttemptsRemain(att, mr) THEN Return("continue", None)
         ELSE Raise("RequestException", "none")
  ELSE IF o = "401" /\ AttemptsRemain(att, mr) THEN Return("continue", None)
  ELSE Raise("HTTPError", o)

\* api_fetcher.py 63-82: the search request with the acquired token
FetchSearch(t) ==
  /\ pc[t] = "f_search"
  /\ \E o \in SearchOutcomes :
       LET h == Handle(o, attempt[t], max_retries[t], access_token[t]) IN
       /\ outcomes' = [outcomes EXCEPT ![t] = Append(@, o)]
       /\ IF h.kind = "continue"
            THEN /\ attempt' = [attempt EXCEPT ![t] = @ + 1]
                 /\ pc' = [pc EXCEPT ![t] = "f_for"]
                 /\ UNCHANGED ret
            ELSE /\ pc' = [pc EXCEPT ![t] = "ret"]
                 /\ ret' = [ret EXCEPT ![t] = h]
                 /\ UNCHANGED attempt
  /\ access_token' = [access_token EXCEPT ![t] = None]
  /\ UNCHANGED <<clock, env, token_cache, token_lock, op, current_time,
                 max_retries, response, posts, getPosts, postsAtStart, calls,
                 sinceClear, waited>>
  /\ UNCHANGED scraperVars

(* ------------------------------ callers -------------------------------- *)
TokenOps == {"get", "clear", "info"}

FirstPc(o) ==
  CASE o = "get" -> "g_block1"
    [] o = "clear" -> "c_lock"
    [] o = "info" -> "i_read"
    [] o = "fetch" -> "f_for"

\* a thread whose previous call is over begins a call o; mr is the
\* max_retries it passes to fetch_ebay_listings
Begin(t, o, mr) ==
  /\ pc[t] \in {"idle", "ret"}
  /\ calls' = calls + 1
  /\ op' = [op EXCEPT ![t] = o]
  /\ pc' = [pc EXCEPT ![t] = FirstPc(o)]
  /\ max_retries' = [max_retries EXCEPT ![t] = mr]
  /\ sinceClear' = [sinceClear EXCEPT ![t] =
                      IF op[t] = "clear" /\ o = "get" THEN @ ELSE "no"]
  /\ IF o = "get"
       THEN GetEnter(t)
       ELSE /\ getPosts' = [getPosts EXCEPT ![t] = 0]
            /\ response' = [response EXCEPT ![t] = NoResponse]
            /\ waited' = [waited EXCEPT ![t] = "no"]
            /\ UNCHANGED <<current_time, postsAtStart>>
  /\ attempt' = [attempt EXCEPT ![t] = 0]
  /\ outcomes' = [outcomes EXCEPT ![t] = <<>>]
  /\ ret' = [ret EXCEPT ![t] = NoRet]
  /\ access_token' = [access_token EXCEPT ![t] = None]
  /\ UNCHANGED <<clock, env, token_cache, token_lock, posts>>
  /\ UNCHANGED scraperVars

\* a call of get_ebay_access_token, clear_token_cache or get_token_info
Call(t) ==
  /\ calls < MaxCalls
  /\ \E o \in TokenOps : Begin(t, o, DefaultMaxRetries)

\* the one call of fetch_ebay_listings; max_retries is any integer the caller
\* likes, a negative one included
CallFetch(t) ==
  /\ \A u \in Threads : op[u] # "fetch"
  /\ \E mr \in -1..MaxRetries : Begin(t, "fetch", mr)

\* a call that writes the token store, before or next to the search
CallBeside(t) ==
  /\ op[t] # "fetch"
  /\ Cardinality({u \in Threads \ {t} : op[u] = "fetch"}) + MaxBeside > calls
  /\ \E o \in {"get", "clear"} : Begin(t, o, DefaultMaxRetries)

\* time passes
Tick ==
  /\ clock < MaxTicks * TickStep
  /\ clock' = clock + TickStep
  /\ UNCHANGED <<env, token_cache, token_lock, pc, op, current_time,
                 attempt, max_retries, access_token, response, ret, posts,
                 getPosts, postsAtStart, calls, outcomes, sinceClear, waited>>
  /\ UNCHANGED scraperVars

\* the token store under concurrent callers, while time passes
Next ==
  \/ Tick
  \/ \E t \in Threads :
       \/ Call(t)
       \/ GetBlock1(t) \/ GetLock2(t) \/ GetPost(t)
       \/ ClearToken(t) \/ ClearExpiry(t)
       \/ InfoRead(t)

Spec == Init /\ [][Next]_vars

\* what thread t does inside auth.py once it has been called
ThreadStep(t) ==
  \/ GetBlock1(t) \/ GetLock2(t) \/ GetPost(t)
  \/ ClearToken(t) \/ ClearExpiry(t)
  \/ InfoRead(t)

\* the same callers under a scheduler that lets every thread run: a thread
\* that can take its next step takes it, and the request of auth.py 55-66
\* comes back, by its answer or by timeout=15 (line 65)
SpecLive == Init /\ [][Next]_vars /\ \A t \in Threads : WF_vars(ThreadStep(t))

\* one search, next to concurrent callers of the token store. A search is
\* over within max_retries round trips of 15 seconds, well inside a TickStep.
NextFetch ==
  \E t \in Threads :
    \/ CallFetch(t) \/ CallBeside(t)
    \/ GetBlock1(t) \/ GetLock2(t) \/ GetPost(t)
    \/ ClearToken(t) \/ ClearExpiry(t)
    \/ FetchFor(t) \/ FetchSearch(t)

SpecFetch == Init /\ [][NextFetch]_vars

(* ------------------------------ scraper.py ----------------------------- *)
\* scraper.py 27: the script starts and asks for its token at module level
ScraperStart(t) ==
  /\ calls = 0
  /\ pc[t] = "idle"
  /\ calls' = calls + 1
  /\ op' = [op EXCEPT ![t] = "scrape"]
  /\ pc' = [pc EXCEPT ![t] = "g_block1"]
  /\ GetEnter(t)
  /\ UNCHANGED <<clock, env, token_cache, token_lock, attempt, max_retries,
                 access_token, ret, posts, outcomes, sinceClear, scraperVars>>

\* scraper.py 27 and 42: EBAY_APP_ID = get_ebay_access_token()
ScraperAssign(t) ==
  /\ pc[t] = "s_assign"
  /\ EBAY_APP_ID' = access_token[t]
  /\ access_token' = [access_token EXCEPT ![t] = None]
  /\ pc' = [pc EXCEPT ![t] = "s_search"]
  /\ UNCHANGED <<clock, env, token_cache, token_lock, op, current_time, attempt,
                 max_retries, response, ret, posts, getPosts, postsAtStart,
                 calls, outcomes, sinceClear, waited, status_code>>

\* scraper.py 33-36: the search request with Bearer EBAY_APP_ID, sent without
\* a timeout; it comes back with one of the outcomes
ScraperSearch(t) ==
  /\ pc[t] = "s_search"
  /\ \E o \in SearchOutcomes :
       /\ o = "401" => posts < MaxPosts
       /\ status_code' = o
  /\ pc' = [pc EXCEPT ![t] = "s_handle"]
  /\ UNCHANGED <<clock, env, token_cache, token_lock, op, current_time, attempt,
                 max_retries, access_token, response, ret, posts, getPosts,
                 postsAtStart, calls, outcomes, sinceClear, waited, EBAY_APP_ID>>

\* scraper.py 37-48: a 200 returns the result; a 401 asks for a token and
\* goes round the while True loop; another status breaks out of the loop and
\* the function returns None; any other exception is logged and the loop goes
\* round
ScraperHandle(t) ==
  /\ pc[t] = "s_handle"
  /\ status_code' = "none"
  /\ CASE status_code = "200" ->
            /\ pc' = [pc EXCEPT ![t] = "ret"]
            /\ ret' = [ret EXCEPT ![t] = Return("result", EBAY_APP_ID)]
            /\ UNCHANGED <<current_time, getPosts, postsAtStart, response, waited>>
       [] status_code = "401" ->
            /\ pc' = [pc EXCEPT ![t] = "g_block1"]
            /\ GetEnter(t)
            /\ UNCHANGED ret
       [] status_code = "500" ->
            /\ pc' = [pc EXCEPT ![t] = "ret"]
            /\ ret' = [ret EXCEPT ![t] = Return("no_result", None)]
            /\ UNCHANGED <<current_time, getPosts, postsAtStart, response, waited>>
       [] status_code = "neterr" ->
            /\ pc' = [pc EXCEPT ![t] = "s_search"]
            /\ UNCHANGED <<ret, current_time, getPosts, postsAtStart, response, waited>>
  /\ UNCHANGED <<clock, env, token_cache, token_lock, op, attempt, max_retries,
                 access_token, posts, calls, outcomes, sinceClear, EBAY_APP_ID>>

\* what the thread of the script does once it has started
ScraperStep(t) ==
  \/ GetBlock1(t) \/ GetLock2(t) \/ GetPost(t)
  \/ ScraperAssign(t) \/ ScraperSearch(t) \/ ScraperHandle(t)

\* one run of the script
NextScraper ==
  \E t \in Threads : ScraperStart(t) \/ ScraperStep(t)

\* the script under a scheduler that lets its thread run, every request
\* coming back with some outcome
SpecScraper ==
  Init /\ [][NextScraper]_vars /\ \A t \in Threads : WF_vars(ScraperStep(t))

(* ============================ properties ============================== *)
InitCache == [access_token |-> None, expires_at |-> DatetimeMin]

Returned(t, o) == pc[t] = "ret" /\ op[t] = o

GotToken(t) == Returned(t, "get") /\ ret[t].kind = "token" /\ Truthy(ret[t].val)

\* every thread made one call, get_ebay_access_token, begun before the first
\* identity request, and the clock has not moved: one expiry event
AllRace ==
  /\ calls = Cardinality(Threads)
  /\ clock = 0
  /\ \A t \in Threads : op[t] = "get" /\ postsAtStart[t] = 0

\* C1: when all threads call get_ebay_access_token concurrently on the initially
\* empty cache and all return a token, exactly one identity request was issued
\* and all hold the same token, whatever expires_in the endpoint declared.
C1_OneRefreshPerExpiry ==
  (AllRace /\ \A t \in Threads : GotToken(t))
    => /\ posts = 1
       /\ \A t, u \in Threads : ret[t].val = ret[u].val

RetryableOutcomes == {"401", "neterr"}

LastOutcome(t) == outcomes[t][Len(outcomes[t])]

\* C2: in fetch_ebay_listings the token acquisition of an attempt that follows
\* a 401 performs a refresh (the cache was invalidated after the 401).
C2_RefreshAfter401 ==
  \A t \in Threads :
    (op[t] = "fetch" /\ pc[t] = "f_search" /\ attempt[t] >= 1 /\ LastOutcome(t) = "401")
      => getPosts[t] = 1

\* the step in which thread t's refresh ends with a token
RefreshSucceeds(t) ==
  /\ pc[t] = "g_post"
  /\ \/ pc'[t] = "f_search"
     \/ pc'[t] = "ret" /\ ret'[t].kind = "token"

\* C3: after a successful refresh the stored expires_at is strictly later than
\* the clock value of that refresh, for every positive expires_in.
C3_NeverStoresExpired ==
  [][\A t \in Threads :
       RefreshSucceeds(t) => token_cache'.expires_at > current_time[t]]_vars

\* every search request of the finished fetch of t failed, and the attempts
\* are used up
AllAttemptsFailed(t) ==
  /\ Returned(t, "fetch")
  /\ max_retries[t] >= 1
  /\ Len(outcomes[t]) = max_retries[t]
  /\ \A i \in 1..Len(outcomes[t]) : outcomes[t][i] \in RetryableOutcomes

\* C4: when every attempt failed the caller does not receive the last
\* attempt's own error but one terminal retries-exceeded error.
C4_TerminalErrorWrapsCause ==
  \A t \in Threads :
    AllAttemptsFailed(t) => ret[t].kind \notin {"HTTPError", "RequestException"}

InAttempt(t) == pc[t] \in {"g_block1", "g_lock2", "g_post", "f_search"}

\* C5: fetch_ebay_listings issues at most max_retries search requests, exactly
\* max_retries when every attempt ended in a network error or a 401, and is in
\* no attempt once the attempt counter has reached max_retries (a max_retries
\* below zero counts as zero, as range() has it).
C5_BoundedAttempts ==
  \A t \in Threads :
    op[t] = "fetch" =>
      /\ Len(outcomes[t]) <= RangeLen(max_retries[t])
      /\ InAttempt(t) => attempt[t] < max_retries[t]
      /\ ( /\ pc[t] = "ret"
           /\ ret[t].kind # "EbayAuthError"
           /\ \A i \in 1..Len(outcomes[t]) : outcomes[t][i] \in RetryableOutcomes )
         => Len(outcomes[t]) = RangeLen(max_retries[t])

C5_Witness ==
  \E t \in Threads :
    /\ AllAttemptsFailed(t)
    /\ max_retries[t] = DefaultMaxRetries
    /\ outcomes[t][1] = "neterr"
    /\ outcomes[t][2] = "401"

\* the get_ebay_access_token of t that followed t's own clear_token_cache,
\* with no write of the cache by another thread in between, has ended
AcquiredAfterClear(t) == Returned(t, "get") /\ sinceClear[t] # "no"

\* C6 as stated: clear_token_cache followed by get_ebay_access_token always
\* issues exactly one identity request.
C6_AlwaysOneRequestAfterClear ==
  \A t \in Threads : AcquiredAfterClear(t) => getPosts[t] = 1

\* C6 amended: clear_token_cache followed by get_ebay_access_token issues
\* exactly one identity request whenever the client id and the client secret
\* are configured, whatever the cache held before (with a credential missing
\* the call fails before any request).
C6_OneRequestAfterClear ==
  \A t \in Threads :
    AcquiredAfterClear(t) =>
      getPosts[t] = (IF env.client_id /\ env.client_secret THEN 1 ELSE 0)

C6_Witness ==
  \E t \in Threads :
    AcquiredAfterClear(t) /\ sinceClear[t] = "valid" /\ getPosts[t] = 1

\* the step in which thread t tests the cache under token_lock
TestsCache(t) == pc[t] \in {"g_block1", "g_lock2"} /\ pc'[t] # pc[t]

\* C7: when the cache holds a token whose expires_at is later than the clock,
\* get_ebay_access_token returns that token, issues no identity request and
\* leaves access_token and expires_at unchanged.
C7_CachedTokenServed ==
  [][\A t \in Threads :
       ( /\ TestsCache(t)
         /\ Truthy(token_cache.access_token)
         /\ clock < token_cache.expires_at )
       => /\ pc'[t] = "ret"
          /\ ret'[t] = Return("token", token_cache.access_token)
          /\ posts' = posts
          /\ getPosts'[t] = 0
          /\ token_cache' = token_cache]_vars

C7_Witness ==
  \E t \in Threads :
    /\ GotToken(t)
    /\ getPosts[t] = 0
    /\ posts >= 1
    /\ ret[t].val = token_cache.access_token
    /\ clock < token_cache.expires_at

MissingField == {"no_access_token", "no_expires_in"}

\* C8: a response that lacks access_token or expires_in makes
\* get_ebay_access_token fail with EbayAuthError and leaves the cache's
\* access_token and expires_at as they were.
C8_MalformedLeavesCache ==
  [][\A t \in Threads :
       ( /\ pc[t] = "g_post"
         /\ pc'[t] # "g_post"
         /\ response'[t].shape \in MissingField )
       => /\ pc'[t] = "ret"
          /\ ret'[t].kind = "EbayAuthError"
          /\ token_cache' = token_cache]_vars

C8_Witness ==
  \E t \in Threads :
    /\ Returned(t, "get")
    /\ response[t].shape = "no_expires_in"
    /\ ret[t].kind = "EbayAuthError"
    /\ Truthy(token_cache.access_token)

\* C9: a caller that waited for token_lock while a refresh was under way that
\* then failed issues no identity request of its own.
C9_FailureSharedWithWaiters ==
  \A t \in Threads : waited[t] = "failed" => getPosts[t] = 0

\* C10: an authentication error of the token acquisition ends
\* fetch_ebay_listings only when no attempts remain (the loop retries it).
C10_AuthErrorRetried ==
  \A t \in Threads :
    ( /\ Returned(t, "fetch")
      /\ ret[t].kind = "EbayAuthError"
      /\ ret[t].cause # "empty_credentials" )
    => ~AttemptsRemain(attempt[t], max_retries[t])

\* position i of the outcomes of thread t is the last search request of its call
LastSearch(t, i) == i = Len(outcomes[t])

\* C11: an error status other than 401 ends fetch_ebay_listings at once with
\* that HTTP error: the request that got it is the last search request of the
\* call, the call is over and no token acquisition follows, also when attempts
\* remain.
C11_OtherStatusFailsAtOnce ==
  \A t \in Threads :
    \A i \in 1..Len(outcomes[t]) :
      outcomes[t][i] = "500"
        => /\ LastSearch(t, i)
           /\ Returned(t, "fetch")
           /\ ret[t] = Raise("HTTPError", "500")
           /\ attempt[t] = i - 1

\* a 500 on the first of three attempts ended the call
C11_Witness ==
  \E t \in Threads :
    /\ Returned(t, "fetch")
    /\ max_retries[t] = MaxRetries
    /\ outcomes[t] = <<"500">>
    /\ ret[t].kind = "HTTPError"

\* C12: a network-level error with attempts left makes fetch_ebay_listings go
\* to its next attempt, and neither the handling of the error nor the start of
\* the next attempt writes the token cache or takes token_lock.
C12_NetworkErrorRetriesCacheKept ==
  [][\A t \in Threads :
       /\ (/\ pc[t] = "f_search"
           /\ pc'[t] # "f_search"
           /\ outcomes'[t][Len(outcomes'[t])] = "neterr"
           /\ attempt[t] < max_retries[t] - 1)
            => /\ pc'[t] = "f_for"
               /\ attempt'[t] = attempt[t] + 1
               /\ token_cache' = token_cache
               /\ token_lock' = token_lock
       /\ (/\ pc[t] = "f_for"
           /\ pc'[t] # "f_for"
           /\ attempt[t] > 0
           /\ outcomes[t][Len(outcomes[t])] = "neterr")
            => /\ pc'[t] = "g_block1"
               /\ token_cache' = token_cache
               /\ token_lock' = token_lock]_vars

\* after a network error the next attempt has asked for its token, the cache
\* still holding the token the failed attempt sent
C12_Witness ==
  \E t \in Threads :
    /\ op[t] = "fetch"
    /\ pc[t] = "g_block1"
    /\ attempt[t] = 1
    /\ outcomes[t] = <<"neterr">>
    /\ Truthy(token_cache.access_token)

\* C13: the first 200 of the search ends fetch_ebay_listings with its result:
\* the request that got it is the last search request of the call, and the call
\* is over, so that no acquisition or invalidation follows in it, whatever
\* number of attempts remains.
C13_SuccessEndsCall ==
  \A t \in Threads :
    \A i \in 1..Len(outcomes[t]) :
      outcomes[t][i] = "200"
        => /\ LastSearch(t, i)
           /\ Returned(t, "fetch")
           /\ ret[t].kind = "result"
           /\ attempt[t] = i - 1

\* a 200 on the first of three attempts ended the call with a result
C13_Witness ==
  \E t \in Threads :
    /\ Returned(t, "fetch")
    /\ max_retries[t] = MaxRetries
    /\ outcomes[t] = <<"200">>
    /\ ret[t].kind = "result"
    /\ Truthy(ret[t].val)

\* the cache holds no token that the clock says is still valid
ExpiredNow == ~(Truthy(token_cache.access_token) /\ clock < token_cache.expires_at)

\* C14: with the cache expired and the client id or the client secret missing,
\* the first block of get_ebay_access_token ends the call with the
\* empty-credentials EbayAuthError: no identity request is issued, the second
\* block is not entered, token_lock is not kept and the cache is unchanged.
C14_MissingCredentialsFailFast ==
  [][\A t \in Threads :
       (/\ pc[t] = "g_block1"
        /\ pc'[t] # "g_block1"
        /\ ExpiredNow
        /\ (~env.client_id \/ ~env.client_secret))
         => /\ pc'[t] = "ret"
            /\ ret'[t] = Raise("EbayAuthError", "empty_credentials")
            /\ posts' = posts
            /\ getPosts'[t] = 0
            /\ token_lock' = token_lock
            /\ token_cache' = token_cache]_vars

\* the client secret alone is missing and the call failed without a request
C14_Witness ==
  \E t \in Threads :
    /\ Returned(t, "get")
    /\ env.client_id /\ ~env.client_secret
    /\ ret[t] = Raise("EbayAuthError", "empty_credentials")
    /\ getPosts[t] = 0
    /\ posts = 0

\* the exceptions of the HTTP library that api_fetcher.py 76 and 82 re-raise
RawTransportKinds == {"HTTPError", "RequestException"}

\* C15: a failure of fetch_ebay_listings never reaches the caller as a raw
\* exception of the HTTP library.
C15_NoRawTransportError ==
  \A t \in Threads :
    Returned(t, "fetch") => ret[t].kind \notin RawTransportKinds

\* C16: a successful return of get_ebay_access_token carries a non-empty
\* token, also when the identity response has both fields and an empty
\* access_token.
C16_ReturnedTokenNonEmpty ==
  \A t \in Threads :
    (Returned(t, "get") /\ ret[t].kind = "token") => Truthy(ret[t].val)

\* the identity round trip of thread t ended in a network failure, a status
\* other than 200 or a body that is not the expected one
RoundTripFailed(t) ==
  /\ response[t] # NoResponse
  /\ (response[t].status # 200 \/ response[t].shape # "ok")

\* C17: one call of get_ebay_access_token issues at most one identity request,
\* and a round trip that failed ends the call with an EbayAuthError after that
\* one request.
C17_AtMostOneRequestPerCall ==
  \A t \in Threads :
    /\ getPosts[t] <= 1
    /\ RoundTripFailed(t)
         => /\ Returned(t, op[t])
            /\ ret[t].kind = "EbayAuthError"
            /\ getPosts[t] = 1

\* a call ended with the error of its one failed round trip
C17_Witness ==
  \E t \in Threads :
    /\ Returned(t, "get")
    /\ response[t].status = 200
    /\ response[t].shape = "not_json"
    /\ ret[t].kind = "EbayAuthError"
    /\ getPosts[t] = 1

\* thread t is inside a block of auth.py that spans more than one step: the
\* identity round trip, or clear_token_cache between its two writes
InsideLockedBlock(t) == pc[t] \in {"g_post", "c_expiry"}

\* at most one thread is inside the round trip, and who is inside a block
\* holds token_lock
OneInsideRoundTrip ==
  /\ \A t, u \in Threads : (pc[t] = "g_post" /\ pc[u] = "g_post") => t = u
  /\ \A t \in Threads : InsideLockedBlock(t) => token_lock = t

\* a step of thread t that reads or writes token_cache is taken with no other
\* thread holding token_lock, and nothing else writes token_cache
AccessUnderLock ==
  /\ \A t \in Threads :
       (/\ pc'[t] # pc[t]
        /\ pc[t] \in {"g_block1", "g_lock2", "g_post", "c_lock", "c_expiry", "i_read"})
         => token_lock \in {NoThread, t}
  /\ token_cache' # token_cache
       => \E t \in Threads :
            /\ pc'[t] # pc[t]
            /\ pc[t] \in {"g_post", "c_lock", "c_expiry"}
            /\ (token_lock = t \/ token_lock' = t)

\* C18: in every reachable state at most one thread is inside the identity
\* round trip, and every write of token_cache (get_ebay_access_token,
\* clear_token_cache) and every read of it (get_token_info included) is made
\* by a thread that holds token_lock.
C18_CacheAccessUnderLock == []OneInsideRoundTrip /\ [][AccessUnderLock]_vars

\* one thread is inside the round trip while the other stands before
\* token_lock to read the cache
C18_Witness ==
  \E t, u \in Threads :
    /\ pc[t] = "g_post"
    /\ token_lock = t
    /\ pc[u] \in {"g_lock2", "i_read"}
    /\ getPosts[u] = 0

\* C19: when get_ebay_access_token serves the cached token, expires_at is
\* later than the clock at the moment of the test under token_lock, also when
\* the caller read the clock before it got the lock.
C19_CachedTokenValidAtTest ==
  [][\A t \in Threads :
       (/\ TestsCache(t)
        /\ pc'[t] = "ret"
        /\ ret'[t].kind = "token")
         => clock < token_cache.expires_at]_vars

\* C20: an identity round trip that ends in an EbayAuthError, the one for an
\* expires_in that is no integer included, leaves access_token and expires_at
\* as they were.
C20_FailedRefreshKeepsCache ==
  [][\A t \in Threads :
       (/\ pc[t] = "g_post"
        /\ pc'[t] # "g_post"
        /\ ret'[t].kind = "EbayAuthError")
         => token_cache' = token_cache]_vars

\* thread t takes a step in which it reads token_cache: one of the two tests
\* of get_ebay_access_token, or get_token_info
ReadsCache(t) == pc[t] \in {"g_block1", "g_lock2", "i_read"} /\ pc'[t] # pc[t]

\* a clear_token_cache is between its two writes
MidClear == \E u \in Threads : pc[u] = "c_expiry"

\* C21: clear_token_cache always ends in the one cleared state, whatever the
\* cache held before (so a second call changes nothing), and no reader of the
\* cache takes its reading between the two writes of a clear_token_cache: it
\* sees the state before the invalidation or the state after it.
C21_ClearIdempotentNoTornRead ==
  [][/\ \A t \in Threads :
          (pc[t] = "c_expiry" /\ pc'[t] # "c_expiry") => token_cache' = InitCache
     /\ \A t \in Threads : ReadsCache(t) => ~MidClear]_vars

\* a clear_token_cache has written access_token and not yet expires_at of a
\* cache that held a token, while the other thread stands before its reading
C21_Witness ==
  \E t, u \in Threads :
    /\ pc[u] = "c_expiry"
    /\ token_cache.expires_at > DatetimeMin
    /\ pc[t] \in {"g_block1", "i_read"}

\* thread t is inside get_ebay_access_token
InGet(t) == pc[t] \in {"g_block1", "g_lock2", "g_post"}

\* no thread that is outside auth.py holds token_lock
LockFreeAtRest == \A t \in Threads : pc[t] \in {"idle", "ret"} => token_lock # t

\* C22: token_lock is released on every exit of get_ebay_access_token,
\* clear_token_cache and get_token_info, and every caller of
\* get_ebay_access_token eventually returns a token or an EbayAuthError,
\* whatever the other callers do.
C22_LockReleasedCallersReturn ==
  /\ []LockFreeAtRest
  /\ \A t \in Threads :
       InGet(t) ~> (pc[t] = "ret" /\ ret[t].kind \in {"token", "EbayAuthError"})

\* a caller that stood before token_lock during a round trip that failed has
\* returned, and the lock is free
C22_Witness ==
  \E t \in Threads :
    /\ Returned(t, "get")
    /\ waited[t] = "failed"
    /\ ret[t].kind \in {"token", "EbayAuthError"}
    /\ token_lock = NoThread

\* C23: the search of scraper.py, once started, comes to an end: it returns a
\* result or fails with an error, whatever the search requests come back with.
C23_ScraperEnds ==
  \A t \in Threads : (op[t] = "scrape") ~> (pc[t] = "ret")

\* C24: in fetch_ebay_listings an acquisition begins only at the head of an
\* attempt that has sent no search request yet, a search request is sent only
\* straight after the acquisition of its attempt and carries the token that
\* acquisition returned, and no token is held over from an earlier attempt.
C24_TokenAcquiredPerAttempt ==
  [][\A t \in Threads :
       /\ (op'[t] = "fetch" /\ pc'[t] = "g_block1" /\ pc[t] # "g_block1")
            => /\ pc[t] = "f_for"
               /\ Len(outcomes[t]) = attempt[t]
               /\ access_token[t] = None
       /\ (pc'[t] = "f_search" /\ pc[t] # "f_search")
            => /\ InGet(t)
               /\ access_token'[t] = token_cache'.access_token
               /\ Len(outcomes[t]) = attempt[t]
       /\ (pc[t] = "f_search" /\ pc'[t] = "ret" /\ ret'[t].kind = "result")
            => ret'[t].val = access_token[t]]_vars

\* the second attempt has acquired its token and is about to send it
C24_Witness ==
  \E t \in Threads :
    /\ pc[t] = "f_search"
    /\ attempt[t] = 1
    /\ outcomes[t] = <<"401">>
    /\ Truthy(access_token[t])
    /\ access_token[t] = token_cache.access_token

\* C25: with max_retries <= 0 fetch_ebay_listings acquires no token, sends no
\* search request and ends with the ConnectionError of line 83; with
\* max_retries >= 1 it never ends with that error.
C25_FinalErrorOnlyWithoutAttempts ==
  \A t \in Threads :
    op[t] = "fetch"
      => /\ max_retries[t] <= 0
              => /\ pc[t] \in {"f_for", "ret"}
                 /\ outcomes[t] = <<>>
                 /\ getPosts[t] = 0
                 /\ response[t] = NoResponse
                 /\ pc[t] = "ret" => ret[t] = Raise("ConnectionError", "max_retries_exceeded")
         /\ (pc[t] = "ret" /\ max_retries[t] >= 1)
              => ret[t] # Raise("ConnectionError", "max_retries_exceeded")

\* a call with a negative max_retries ended with the final error while the
\* other thread was served by the identity endpoint
C25_Witness ==
  \E t \in Threads :
    /\ Returned(t, "fetch")
    /\ max_retries[t] < 0
    /\ ret[t] = Raise("ConnectionError", "max_retries_exceeded")
    /\ posts > 0

=============================================================================
